---- MODULE Spec2Model ----
\* A model of facepy's GraphAPI client (src/facepy/graph_api.py) and its
\* exception classes (src/facepy/exceptions.py).
\*
\* Python values are tagged records (field t names the Python type).  A raw
\* response body is a Python string: PyStr(s) is text that json.loads rejects,
\* JsonText(v) is the serialisation of the JSON value v.  The interpreter is
\* Python 2 (the source uses basestring and exception.message).
EXTENDS Integers, Sequences, FiniteSets, TLC

VARIABLES oauth_token, pc, call, retry, options, gen, sent, recv, yielded, outcome

vars == <<oauth_token, pc, call, retry, options, gen, sent, recv, yielded, outcome>>

\* ------------------------------------------------------------------ bounds

MaxRetry == 3
MaxPages == 3
MaxBatch == 3

\* ----------------------------------------------------------- Python values

PyNone == [t |-> "none"]
PyBool(b) == [t |-> "bool", b |-> b]
PyStr(s) == [t |-> "str", s |-> s]
PyNum(n) == [t |-> "num", n |-> n]
PyList(items) == [t |-> "list", items |-> items]
PyTuple(items) == [t |-> "tuple", items |-> items]
PySet(items) == [t |-> "set", items |-> items]
PyDict(d) == [t |-> "dict", d |-> d]
PyFile(name) == [t |-> "file", name |-> name]
PyGenerator == [t |-> "generator"]
JsonText(v) == [t |-> "str", json |-> v]

EmptyMap == [k \in {} |-> PyNone]
EmptyDictValue == PyDict(EmptyMap)
Unset == [t |-> "unset"]

\* An exception object: its class, args[0] (message), and the attributes the
\* library sets on it (code, request); Unset is an attribute never assigned.
PyExc(cls, message, code, request) ==
    [t |-> "exc", cls |-> cls, message |-> message, code |-> code, request |-> request]

\* The outcome of evaluating a Python expression: a value, or an exception
\* propagating out of it.
Ret(v) == [raised |-> FALSE, v |-> v]
Raise(e) == [raised |-> TRUE, v |-> e]

\* Python truthiness (bool(v)).
Truthy(v) ==
    CASE v.t = "none" -> FALSE
      [] v.t = "bool" -> v.b
      [] v.t = "num" -> v.n # 0
      [] v.t = "str" -> ("json" \in DOMAIN v) \/ v.s # ""
      [] v.t \in {"list", "tuple", "set"} -> v.items # <<>>
      [] v.t = "dict" -> DOMAIN v.d # {}
      [] OTHER -> TRUE

\* isinstance(v, Exception)
IsException(v) == v.t = "exc"

\* `v is False`
IsFalse(v) == v = PyBool(FALSE)

\* dict.get(key, None) on a Python dict's mapping.
DictGet(d, key) == IF key \in DOMAIN d THEN d[key] ELSE PyNone

\* d[key] = value
DictSet(d, key, value) ==
    [k \in DOMAIN d \cup {key} |-> IF k = key THEN value ELSE d[k]]

\* del d[key] for every key of keys that is present (KeyError passed over).
DictDel(d, keys) == [k \in DOMAIN d \ keys |-> d[k]]

\* ------------------------------------------------------------- exceptions

\* FacebookError.__init__(self, message, code): both arguments are required.
\* `given` is the tuple of positional arguments of the constructor call.
FacebookErrorNew(cls, given) ==
    IF Len(given) = 2
    THEN Ret(PyExc(cls, given[1], given[2], Unset))
    ELSE Raise(PyExc("TypeError", PyStr("__init__() takes exactly 3 arguments"), Unset, Unset))

\* ----------------------------------------------------------------- _parse

\* json.loads(data): the decoded value, or ValueError for text that is no JSON.
JsonLoads(data) ==
    IF "json" \in DOMAIN data
    THEN Ret(data.json)
    ELSE Raise(PyExc("ValueError", PyStr("No JSON object could be decoded"), Unset, Unset))

\* error.get(name): error is data['error']; a value that is no dict has no
\* attribute get.
HasGet(error) == error.t = "dict"

\* ParseErrorClass comparing error.type with the class name instead of the
\* service's type name.
ParseErrorClass_ByClassName(error) ==
    IF DictGet(error.d, "type") = PyStr("OAuthError") THEN "OAuthError" ELSE "FacebookError"

ParseErrorClass(error) ==
    IF DictGet(error.d, "type") = PyStr("OAuthException") THEN "OAuthError" ELSE "FacebookError"

\* parse testing the legacy error_msg field before the error field.
parse_LegacyFirst(data) ==
    LET loaded == JsonLoads(data) IN
    IF loaded.raised THEN Ret(data)
    ELSE LET v == loaded.v IN
      IF v.t = "dict" /\ "error_msg" \in DOMAIN v.d
      THEN FacebookErrorNew("FacebookError",
                            <<DictGet(v.d, "error_msg"), DictGet(v.d, "error_code")>>)
      ELSE IF v.t = "dict" /\ "error" \in DOMAIN v.d
      THEN LET error == v.d["error"] IN
           IF ~HasGet(error)
           THEN Raise(PyExc("AttributeError", PyStr("object has no attribute 'get'"), Unset, Unset))
           ELSE FacebookErrorNew(ParseErrorClass(error),
                                 <<DictGet(error.d, "message"), DictGet(error.d, "code")>>)
      ELSE Ret(v)

parse(data) ==
    LET loaded == JsonLoads(data) IN
    IF loaded.raised THEN Ret(data)
    ELSE LET v == loaded.v IN
      IF v.t = "dict" /\ "error" \in DOMAIN v.d
      THEN LET error == v.d["error"] IN
           IF ~HasGet(error)
           THEN Raise(PyExc("AttributeError", PyStr("object has no attribute 'get'"), Unset, Unset))
           ELSE FacebookErrorNew(ParseErrorClass(error),
                                 <<DictGet(error.d, "message"), DictGet(error.d, "code")>>)
      ELSE IF v.t = "dict" /\ "error_msg" \in DOMAIN v.d
      THEN FacebookErrorNew("FacebookError",
                            <<DictGet(v.d, "error_msg"), DictGet(v.d, "error_code")>>)
      ELSE Ret(v)

\* ----------------------------------------------------------------- _query

\* ','.join(items)
RECURSIVE Join(_)
Join(items) ==
    IF items = <<>> THEN ""
    ELSE IF Len(items) = 1 THEN items[1].s
    ELSE items[1].s \o "," \o Join(Tail(items))

\* isinstance(v, list) or isinstance(v, tuple) or isinstance(v, set)
IsCollection(v) == v.t \in {"list", "tuple", "set"}

\* all([isinstance(item, basestring) for item in v])
AllStrings(items) == \A i \in 1..Len(items) : items[i].t = "str"

\* Normalize joining lists alone, tuples and sets left as they are.
Normalize_ListsOnly(data) ==
    [k \in DOMAIN data |->
        IF data[k].t = "list" /\ AllStrings(data[k].items)
        THEN PyStr(Join(data[k].items))
        ELSE data[k]]

\* "Convert option lists to comma-separated values."
Normalize(data) ==
    [k \in DOMAIN data |->
        IF IsCollection(data[k]) /\ AllStrings(data[k].items)
        THEN PyStr(Join(data[k].items))
        ELSE data[k]]

\* GraphAPI.__init__: url='https://graph.facebook.com', self.url = url.strip('/').
\* The client is built with the default url, which strip('/') leaves as it is.
ClientUrl == "https://graph.facebook.com"

\* url = '%s/%s' % (self.url, path)
Url(path) == ClientUrl \o "/" \o path

\* InjectToken leaving a caller's access_token in place.
InjectToken_UnlessGiven(data, token) ==
    IF Truthy(token) /\ "access_token" \notin DOMAIN data
    THEN DictSet(data, "access_token", token)
    ELSE data

\* if self.oauth_token: data['access_token'] = self.oauth_token
InjectToken(data, token) ==
    IF Truthy(token) THEN DictSet(data, "access_token", token) ELSE data

\* The data mapping _query hands to load or paginate.
QueryData(data, token) == InjectToken(Normalize(data), token)

\* The service's answer to one HTTP request: a raw body, or the session
\* raising requests.RequestException.
TransportFailure == [t |-> "RequestException"]

\* The names an instance of GraphAPI resolves (its attributes and methods).
GraphAPIAttributes ==
    {"oauth_token", "session", "url", "get", "post", "delete", "search", "batch",
     "fql", "_query", "_parse"}

\* raise self.HTTPError(exception.message)
RaiseHTTPError ==
    IF "HTTPError" \in GraphAPIAttributes
    THEN Raise(PyExc("HTTPError", PyStr("transport failure"), Unset, Unset))
    ELSE Raise(PyExc("AttributeError",
                     PyStr("'GraphAPI' object has no attribute 'HTTPError'"), Unset, Unset))

\* hasattr(v, 'read')
HasRead(v) == v.t = "file"

FileKeys(data) == {k \in DOMAIN data : HasRead(data[k])}

\* Request copying the file entries into files without removing them from data.
Request_FilesLeftInBody(method, url, data) ==
    IF method \in {"GET", "DELETE"}
    THEN [method |-> method, url |-> url, params |-> data, data |-> EmptyMap,
          files |-> EmptyMap, allow_redirects |-> PyBool(TRUE)]
    ELSE [method |-> method, url |-> url, params |-> EmptyMap,
          data |-> data,
          files |-> [k \in FileKeys(data) |-> data[k]], allow_redirects |-> Unset]

\* The keyword arguments of self.session.request(...) for one dispatch: GET
\* and DELETE pass params and allow_redirects=True, POST and PUT pass data
\* (the file entries popped out of it) and files.  An argument that is not
\* passed is the empty mapping, or Unset.  (The facade calls load with GET,
\* POST and DELETE only.)
Request(method, url, data) ==
    IF method \in {"GET", "DELETE"}
    THEN [method |-> method, url |-> url, params |-> data, data |-> EmptyMap,
          files |-> EmptyMap, allow_redirects |-> PyBool(TRUE)]
    ELSE [method |-> method, url |-> url, params |-> EmptyMap,
          data |-> DictDel(data, FileKeys(data)),
          files |-> [k \in FileKeys(data) |-> data[k]], allow_redirects |-> Unset]

\* NextUrl reading result['next'], without the paging level.
NextUrl_TopLevel(result) ==
    IF result.t = "dict" /\ "next" \in DOMAIN result.d THEN result.d["next"] ELSE PyNone

\* next_url = result['paging']['next'], None on KeyError or TypeError.
NextUrl(result) ==
    IF /\ result.t = "dict"
       /\ "paging" \in DOMAIN result.d
       /\ result.d["paging"].t = "dict"
       /\ "next" \in DOMAIN result.d["paging"].d
    THEN result.d["paging"].d["next"]
    ELSE PyNone

\* load(method, url, data) given the service's answer resp.  data is the
\* mapping after the call (POST/PUT pop the file entries out of it).
\* load raising the parsed result when it is a typed error.
load_RaiseTypedError(method, url, data, resp) ==
    LET req == Request(method, url, data)
        after == IF method \in {"POST", "PUT"} THEN req.data ELSE data
    IN  IF resp = TransportFailure
        THEN [raised |-> TRUE, v |-> RaiseHTTPError.v, next_url |-> PyNone,
              req |-> req, data |-> after]
        ELSE LET parsed == parse(resp) IN
             [raised |-> parsed.raised \/ IsException(parsed.v), v |-> parsed.v,
              next_url |-> IF parsed.raised THEN PyNone ELSE NextUrl(parsed.v),
              req |-> req, data |-> after]

load(method, url, data, resp) ==
    LET req == Request(method, url, data)
        after == IF method \in {"POST", "PUT"} THEN req.data ELSE data
    IN  IF resp = TransportFailure
        THEN [raised |-> TRUE, v |-> RaiseHTTPError.v, next_url |-> PyNone,
              req |-> req, data |-> after]
        ELSE LET parsed == parse(resp) IN
             [raised |-> parsed.raised, v |-> parsed.v,
              next_url |-> IF parsed.raised THEN PyNone ELSE NextUrl(parsed.v),
              req |-> req, data |-> after]

\* for key in ['offset', 'until', 'since']: del data[key]
PaginationKeys == {"offset", "until", "since"}

\* ResetPagination deleting offset alone.
ResetPagination_OffsetOnly(data) == DictDel(data, {"offset"})

ResetPagination(data) == DictDel(data, PaginationKeys)

\* ------------------------------------------------------- caller's inputs

Credentials == {PyBool(FALSE), PyStr("TOKEN")}

Paths == {"me", "me/feed"}

RetryValues == (-1)..MaxRetry

GetOptions ==
    { EmptyMap,
      [offset |-> PyStr("5"), limit |-> PyStr("10")],
      [since |-> PyStr("s1"), until |-> PyStr("u1"),
       fields |-> PyList(<<PyStr("id"), PyStr("name")>>)],
      [access_token |-> PyStr("CALLER"), offset |-> PyStr("5")],
      [ids |-> PyTuple(<<PyStr("1"), PyStr("2"), PyStr("3")>>),
       tags |-> PySet(<<PyStr("b"), PyStr("a")>>),
       mixed |-> PyList(<<PyStr("a"), PyNum(1)>>),
       none |-> PyList(<<>>),
       limit |-> PyNum(10)] }

\* search(term, type, page, **options): Python binds the keywords term, type
\* and page to the parameters, so options never holds them.
SearchTerms == {"pizza"}

SearchTypes == {"user", "checkin", "foo"}

SearchOptions ==
    { EmptyMap,
      [q |-> PyStr("other")],
      [q |-> PyStr("other"), limit |-> PyStr("10"), offset |-> PyStr("5")],
      [center |-> PyStr("1,2"), access_token |-> PyStr("CALLER")] }

PostData ==
    { EmptyMap,
      [message |-> PyStr("hi")],
      [message |-> PyStr("hi"), source |-> PyFile("photo.jpg")],
      [tags |-> PyList(<<PyStr("a"), PyStr("b")>>), access_token |-> PyStr("CALLER"),
       source |-> PyFile("photo.jpg"), thumb |-> PyFile("thumb.jpg")] }

\* The i-th entry of a batch request list.
BatchRequest(i) ==
    PyDict([method |-> PyStr("GET"),
            relative_url |-> PyStr(IF i = 1 THEN "me" ELSE IF i = 2 THEN "me/friends"
                                   ELSE IF i = 3 THEN "me/feed" ELSE "me/likes")])

BatchRequests(n) == [i \in 1..n |-> BatchRequest(i)]

\* ---------------------------------------------------- service's answers

OkValue == PyDict([id |-> PyStr("1")])

PageValue(u) ==
    PyDict([data |-> PyList(<<PyStr(u)>>), paging |-> PyDict([next |-> PyStr(u)])])

NextUrls == {"https://graph.facebook.com/me/feed?page=2",
             "https://graph.facebook.com/me/feed?page=3"}

OAuthValue ==
    PyDict([error |-> PyDict([type |-> PyStr("OAuthException"),
                              message |-> PyStr("bad token"), code |-> PyNum(190)])])

GraphErrorValue ==
    PyDict([error |-> PyDict([type |-> PyStr("GraphMethodException"),
                              message |-> PyStr("unsupported")])])

BareErrorValue == PyDict([error |-> EmptyDictValue])

LegacyValue == PyDict([error_msg |-> PyStr("legacy"), error_code |-> PyNum(1)])

LegacyNoCodeValue == PyDict([error_msg |-> PyStr("legacy, no code")])

\* Both error shapes in one mapping.
BothErrorsValue ==
    PyDict([error |-> PyDict([message |-> PyStr("structured"), code |-> PyNum(2)]),
            error_msg |-> PyStr("legacy"), error_code |-> PyNum(1)])

\* A JSON string, as the decoder hands it back: a str, as simplejson (the
\* decoder the module imports first) gives for ASCII text.
StringValue == PyStr("plain")

StringErrorValue == PyDict([error |-> PyStr("oops")])

\* JSON values whose error field is a mapping.
ErrorValues == {OAuthValue, GraphErrorValue, BareErrorValue}

\* Bodies that carry no cursor.
LastBodies ==
    {JsonText(v) : v \in ErrorValues \cup {OkValue, LegacyValue, LegacyNoCodeValue,
                                           BothErrorsValue, StringErrorValue, StringValue,
                                           PyBool(TRUE), PyBool(FALSE)}}
    \cup {PyStr("not json")}

PageBodies == {JsonText(PageValue(u)) : u \in NextUrls}

\* What the service may answer to the (n+1)-th request of a call: a page that
\* names a further page only while the chain stays within MaxPages.
Responses(n) ==
    LastBodies \cup {TransportFailure} \cup (IF n + 1 < MaxPages THEN PageBodies ELSE {})

\* The inbound entries of a batch response: empty, or a mapping whose body is
\* an embedded serialised response.
BatchEntries ==
    {PyNone, EmptyDictValue, PyDict([body |-> JsonText(OkValue)]),
     PyDict([body |-> JsonText(OAuthValue)])}

RECURSIVE EntryLists(_)
EntryLists(m) ==
    IF m = 0 THEN {<<>>}
    ELSE {Append(l, e) : l \in EntryLists(m - 1), e \in BatchEntries}

BatchBodies ==
    {JsonText(PyList(l)) : l \in UNION {EntryLists(m) : m \in 0..MaxBatch}}
    \cup {JsonText(OAuthValue), JsonText(BareErrorValue), JsonText(PyBool(FALSE)),
          JsonText(PyBool(TRUE))}

BatchResponses == BatchBodies \cup {TransportFailure}

AllResponses == LastBodies \cup PageBodies \cup {TransportFailure}

\* ------------------------------------------------------------------ state

NoCall ==
    [op |-> "none", path |-> "", page |-> FALSE, retry |-> 0, options |-> EmptyMap,
     term |-> "", type |-> "", requests |-> <<>>]

NoGen == [kind |-> "none", state |-> "none"]

NoOutcome == [raised |-> FALSE, v |-> Unset]

Init ==
    /\ oauth_token \in Credentials
    /\ pc = "idle"
    /\ call = NoCall
    /\ retry = 0
    /\ options = EmptyMap
    /\ gen = NoGen
    /\ sent = <<>>
    /\ recv = <<>>
    /\ yielded = <<>>
    /\ outcome = NoOutcome

\* The caller starts a facade call: no call is in progress, or the last one
\* is over (a generator the caller still holds may be dropped at any time).
Begin(c, g, out) ==
    /\ pc \in {"idle", "done"}
    /\ call' = c
    /\ pc' = c.op
    /\ retry' = c.retry
    /\ options' = c.options
    /\ gen' = g
    /\ sent' = <<>>
    /\ recv' = <<>>
    /\ yielded' = <<>>
    /\ outcome' = out
    /\ UNCHANGED oauth_token

CallGet ==
    \E path \in Paths, page \in BOOLEAN, r \in RetryValues, o \in GetOptions :
        Begin([NoCall EXCEPT !.op = "get", !.path = path, !.page = page,
                             !.retry = r, !.options = o], NoGen, NoOutcome)

CallPost ==
    \E path \in Paths, d \in PostData :
        Begin([NoCall EXCEPT !.op = "post", !.path = path, !.options = d], NoGen, NoOutcome)

CallDelete ==
    \E path \in Paths :
        Begin([NoCall EXCEPT !.op = "delete", !.path = path], NoGen, NoOutcome)

CallSearch ==
    \E term \in SearchTerms, type \in SearchTypes, page \in BOOLEAN, o \in SearchOptions :
        Begin([NoCall EXCEPT !.op = "search", !.path = "search", !.term = term,
                             !.type = type, !.page = page, !.options = o], NoGen, NoOutcome)

\* batch is a generator function: the call runs none of its body and returns
\* the generator.
BatchGen == [kind |-> "batch", state |-> "suspended", started |-> FALSE, pairs |-> <<>>, idx |-> 1]

CallBatch ==
    \E n \in 0..MaxBatch :
        Begin([NoCall EXCEPT !.op = "batch", !.requests = BatchRequests(n)],
              BatchGen, Ret(PyGenerator))

\* --------------------------------------------------------------- facade

\* _query(method, path, data, page=True): the generator paginate(method, url, data),
\* not yet started.
PaginateGen(method, path, data) ==
    [kind |-> "paginate", state |-> "suspended", method |-> method,
     url |-> PyStr(Url(path)), data |-> QueryData(data, oauth_token)]

\* The mapping a caller's options dict holds after _query(method, path, options):
\* `data = data or {}` aliases a non-empty options, which the normalisation and
\* the credential injection then mutate in place.
AfterQuery(o) == IF o = EmptyMap THEN o ELSE QueryData(o, oauth_token)

CouldNot(what, path, tail) == PyStr("Could not " \o what \o " \"" \o path \o tail)

\* raise FacebookError(message): the constructor is called with one argument.
RaiseFacebookError(message) == Raise(FacebookErrorNew("FacebookError", <<message>>).v)

\* GetDecide retrying while retry > 0, one attempt more than the budget.
GetDecide_RetryWhilePositive(response, r, path) ==
    IF IsException(response)
    THEN IF r > 0 THEN [again |-> TRUE, out |-> NoOutcome]
         ELSE [again |-> FALSE, out |-> Raise(response)]
    ELSE IF IsFalse(response)
    THEN [again |-> FALSE, out |-> RaiseFacebookError(CouldNot("get", path, "\"."))]
    ELSE [again |-> FALSE, out |-> Ret(response)]

\* GetDecide going round again on a bare false as well as on a typed error.
GetDecide_RetryOnFalse(response, r, path) ==
    IF IsException(response) \/ IsFalse(response)
    THEN IF r > 1 THEN [again |-> TRUE, out |-> NoOutcome]
         ELSE [again |-> FALSE, out |-> Raise(response)]
    ELSE [again |-> FALSE, out |-> Ret(response)]

\* The body of get once _query has answered with `response` (not a generator).
GetDecide(response, r, path) ==
    IF IsException(response)
    THEN IF r > 1 THEN [again |-> TRUE, out |-> NoOutcome]
         ELSE [again |-> FALSE, out |-> Raise(response)]
    ELSE IF IsFalse(response)
    THEN [again |-> FALSE, out |-> RaiseFacebookError(CouldNot("get", path, "\"."))]
    ELSE [again |-> FALSE, out |-> Ret(response)]

\* get(self, path='', page=False, retry=3, **options)
DefaultRetry == 3

\* One activation of get(path, page, retry, **options).
Get ==
    /\ pc = "get"
    /\ IF call.page
       THEN /\ gen' = PaginateGen("GET", call.path, options)
            /\ outcome' = Ret(PyGenerator)
            /\ pc' = "paging"
            /\ UNCHANGED <<retry, options, sent, recv>>
       ELSE \E resp \in AllResponses :
            LET L == load("GET", PyStr(Url(call.path)), QueryData(options, oauth_token), resp)
                D == GetDecide(L.v, retry, call.path)
            IN  /\ sent' = Append(sent, L.req)
                /\ recv' = Append(recv, resp)
                /\ gen' = gen
                /\ IF L.raised
                   THEN /\ outcome' = Raise(L.v)
                        /\ pc' = "done"
                        /\ UNCHANGED <<retry, options>>
                   ELSE IF D.again
                   THEN /\ retry' = retry - 1
                        /\ options' = AfterQuery(options)
                        /\ pc' = "get"
                        /\ outcome' = outcome
                   ELSE /\ outcome' = D.out
                        /\ pc' = "done"
                        /\ UNCHANGED <<retry, options>>
    /\ UNCHANGED <<oauth_token, call, yielded>>

\* post(path, **data) given the service's answer.
post(path, data, resp) ==
    LET L == load("POST", PyStr(Url(path)), QueryData(data, oauth_token), resp)
    IN  [req |-> L.req,
         out |-> IF L.raised THEN Raise(L.v)
                 ELSE IF IsFalse(L.v)
                 THEN RaiseFacebookError(CouldNot("post to", path, "\""))
                 ELSE Ret(L.v)]

Post ==
    /\ pc = "post"
    /\ \E resp \in AllResponses :
         LET P == post(call.path, call.options, resp)
         IN  /\ sent' = Append(sent, P.req)
             /\ recv' = Append(recv, resp)
             /\ outcome' = P.out
    /\ pc' = "done"
    /\ UNCHANGED <<oauth_token, call, retry, options, gen, yielded>>

\* delete(path)
Delete ==
    /\ pc = "delete"
    /\ \E resp \in AllResponses :
         LET L == load("DELETE", PyStr(Url(call.path)), QueryData(EmptyMap, oauth_token), resp)
         IN  /\ sent' = Append(sent, L.req)
             /\ recv' = Append(recv, resp)
             /\ outcome' = IF L.raised THEN Raise(L.v)
                           ELSE IF IsFalse(L.v)
                           THEN RaiseFacebookError(CouldNot("delete", call.path, "\""))
                           ELSE Ret(L.v)
    /\ pc' = "done"
    /\ UNCHANGED <<oauth_token, call, retry, options, gen, yielded>>

\* SUPPORTED_TYPES without its last entry.
SUPPORTED_TYPES_WithoutCheckin == {"post", "user", "page", "event", "group", "place"}

SUPPORTED_TYPES == {"post", "user", "page", "event", "group", "place", "checkin"}

\* SearchOptionsMerge with the term and type arguments applied last.
SearchOptionsMerge_ArgumentsLast(term, type, o) ==
    [k \in {"q", "type"} \cup DOMAIN o |->
        IF k = "q" THEN PyStr(term) ELSE IF k = "type" THEN PyStr(type) ELSE o[k]]

\* dict({'q': term, 'type': type}, **options): the keyword arguments are
\* applied after the mapping, so an entry of options replaces the one of the
\* same name.
SearchOptionsMerge(term, type, o) ==
    [k \in {"q", "type"} \cup DOMAIN o |->
        IF k \in DOMAIN o THEN o[k]
        ELSE IF k = "q" THEN PyStr(term) ELSE PyStr(type)]

\* SearchReturn treating the response as get does: a typed error raised, a
\* bare false turned into a FacebookError.
SearchReturn_AsGet(L) ==
    IF L.raised \/ IsException(L.v) THEN Raise(L.v)
    ELSE IF IsFalse(L.v) THEN RaiseFacebookError(CouldNot("get", "search", "\"."))
    ELSE Ret(L.v)

\* response = self._query('GET', 'search', options, page); return response:
\* what load gave (L) goes to the caller as it is.
SearchReturn(L) == IF L.raised THEN Raise(L.v) ELSE Ret(L.v)

\* search(term, type, page, **options)
Search ==
    /\ pc = "search"
    /\ IF call.type \notin SUPPORTED_TYPES
       THEN /\ outcome' = Raise(PyExc("ValueError", PyStr("Unsupported type"), Unset, Unset))
            /\ pc' = "done"
            /\ UNCHANGED <<gen, sent, recv>>
       ELSE LET o == SearchOptionsMerge(call.term, call.type, call.options) IN
            IF call.page
            THEN /\ gen' = PaginateGen("GET", "search", o)
                 /\ outcome' = Ret(PyGenerator)
                 /\ pc' = "paging"
                 /\ UNCHANGED <<sent, recv>>
            ELSE \E resp \in AllResponses :
                 LET L == load("GET", PyStr(Url("search")), QueryData(o, oauth_token), resp)
                 IN  /\ sent' = Append(sent, L.req)
                     /\ recv' = Append(recv, resp)
                     /\ outcome' = SearchReturn(L)
                     /\ pc' = "done"
                     /\ gen' = gen
    /\ UNCHANGED <<oauth_token, call, retry, options, yielded>>

\* ------------------------------------------------------------ generators

\* next() on the generator of paginate(method, url, data): one turn of its
\* loop, up to the yield, or StopIteration when url is empty.
Paginate ==
    /\ pc = "paging"
    /\ IF Truthy(gen.url)
       THEN \E resp \in Responses(Len(sent)) :
            LET L == load(gen.method, gen.url, gen.data, resp)
            IN  /\ sent' = Append(sent, L.req)
                /\ recv' = Append(recv, resp)
                /\ IF L.raised
                   THEN /\ outcome' = Raise(L.v)
                        /\ gen' = [gen EXCEPT !.state = "failed"]
                        /\ pc' = "done"
                        /\ yielded' = yielded
                   ELSE /\ gen' = [gen EXCEPT !.url = L.next_url,
                                               !.data = ResetPagination(L.data)]
                        /\ yielded' = Append(yielded, L.v)
                        /\ pc' = "paging"
                        /\ outcome' = outcome
       ELSE /\ gen' = [gen EXCEPT !.state = "exhausted"]
            /\ pc' = "done"
            /\ UNCHANGED <<sent, recv, yielded, outcome>>
    /\ UNCHANGED <<oauth_token, call, retry, options>>

TypeError(message) == PyExc("TypeError", PyStr(message), Unset, Unset)

\* iter(v) as zip takes it.  A list or tuple gives its items; an exception
\* object gives its args, (message,), by Python 2's sequence protocol of
\* BaseException; None, a bool and a number are not iterable.  (A dict and a
\* string are iterable too; the service's answers to a batch hold neither.)
Iterate(v) ==
    CASE v.t \in {"list", "tuple"} -> Ret(v.items)
      [] v.t = "exc" -> Ret(<<v.message>>)
      [] v.t \in {"none", "bool", "num"} -> Raise(TypeError("zip argument #1 must support iteration"))

Min(a, b) == IF a < b THEN a ELSE b

\* zip(responses, requests): pairs up to the shorter of the two.
Zip(responses, requests) ==
    LET it == Iterate(responses) IN
    IF it.raised THEN it
    ELSE Ret([i \in 1..Min(Len(it.v), Len(requests)) |->
                [response |-> it.v[i], request |-> requests[i]]])

\* response['body']
Body(response) ==
    IF response.t = "dict"
    THEN IF "body" \in DOMAIN response.d THEN Ret(response.d["body"])
         ELSE Raise(PyExc("KeyError", PyStr("body"), Unset, Unset))
    ELSE Raise(TypeError("indices must be integers"))

\* BatchItem yielding a typed error without naming its request.
BatchItem_RequestNotAttached(pair) ==
    IF ~Truthy(pair.response) THEN Ret(PyNone)
    ELSE LET body == Body(pair.response) IN
         IF body.raised THEN body ELSE parse(body.v)

\* One turn of the loop of batch over the pair (response, request): the item
\* it yields, or the exception it lets out.
BatchItem(pair) ==
    IF ~Truthy(pair.response) THEN Ret(PyNone)
    ELSE LET body == Body(pair.response) IN
         IF body.raised THEN body
         ELSE LET data == parse(body.v) IN
              IF data.raised THEN data
              ELSE IF IsException(data.v)
              THEN Ret([data.v EXCEPT !.request = pair.request])
              ELSE data

\* The generator of batch resumed at pair i of pairs.
BatchStep(pairs, i) ==
    IF i > Len(pairs)
    THEN /\ gen' = [gen EXCEPT !.state = "exhausted", !.started = TRUE, !.pairs = pairs]
         /\ pc' = "done"
         /\ UNCHANGED <<yielded, outcome>>
    ELSE LET item == BatchItem(pairs[i]) IN
         IF item.raised
         THEN /\ gen' = [gen EXCEPT !.state = "failed", !.started = TRUE, !.pairs = pairs]
              /\ pc' = "done"
              /\ outcome' = item
              /\ yielded' = yielded
         ELSE /\ gen' = [gen EXCEPT !.started = TRUE, !.pairs = pairs, !.idx = i + 1]
              /\ pc' = "batch"
              /\ yielded' = Append(yielded, item.v)
              /\ outcome' = outcome

\* json.dumps(requests)
JsonDumps(v) == JsonText(v)

\* next() on the generator of batch(requests): the first runs the POST, each
\* runs the loop up to its next yield.
Batch ==
    /\ pc = "batch"
    /\ IF ~gen.started
       THEN \E resp \in BatchResponses :
            LET P == post("", [batch |-> JsonDumps(PyList(call.requests))], resp)
                Z == Zip(P.out.v, call.requests)
            IN  /\ sent' = Append(sent, P.req)
                /\ recv' = Append(recv, resp)
                /\ IF P.out.raised \/ Z.raised
                   THEN /\ gen' = [gen EXCEPT !.state = "failed", !.started = TRUE]
                        /\ pc' = "done"
                        /\ outcome' = IF P.out.raised THEN P.out ELSE Z
                        /\ yielded' = yielded
                   ELSE BatchStep(Z.v, 1)
       ELSE /\ BatchStep(gen.pairs, gen.idx)
            /\ UNCHANGED <<sent, recv>>
    /\ UNCHANGED <<oauth_token, call, retry, options>>

\* ------------------------------------------------------------ behaviours

Next ==
    \/ CallGet
    \/ CallPost
    \/ CallDelete
    \/ CallSearch
    \/ CallBatch
    \/ Get
    \/ Post
    \/ Delete
    \/ Search
    \/ Paginate
    \/ Batch

Spec == Init /\ [][Next]_vars

\* ---------------------------------------------------------------- claims

\* What a response parses to, for the statements below.
Parsed(resp) == parse(resp).v

ParsesToError(resp) ==
    resp # TransportFailure /\ ~parse(resp).raised /\ IsException(Parsed(resp))

ParsesToSuccess(resp) ==
    /\ resp # TransportFailure
    /\ ~parse(resp).raised
    /\ ~IsException(Parsed(resp))
    /\ Parsed(resp) # PyBool(FALSE)

NonPagedGet == call.op = "get" /\ ~call.page

\* C1: a non-paged get with retry budget r >= 1 whose first k-1 dispatches
\* (k <= r) parse to typed errors and whose k-th parses to a non-error,
\* non-false result has returned that result after exactly k dispatches; when
\* the first r dispatches all parse to typed errors it has raised the error of
\* the r-th after exactly r dispatches.
C1_GetRetry ==
    (NonPagedGet /\ call.retry >= 1) =>
        /\ \A k \in 1..Len(recv) :
             (/\ k <= call.retry
              /\ \A i \in 1..(k - 1) : ParsesToError(recv[i])
              /\ ParsesToSuccess(recv[k]))
             => (/\ pc = "done"
                 /\ outcome = Ret(Parsed(recv[k]))
                 /\ Len(sent) = k
                 /\ Len(recv) = k)
        /\ (/\ Len(recv) >= call.retry
            /\ \A i \in 1..call.retry : ParsesToError(recv[i]))
           => (/\ pc = "done"
               /\ outcome = Raise(Parsed(recv[call.retry]))
               /\ Len(sent) = call.retry
               /\ Len(recv) = call.retry)

\* C1's case: budget 3, two Service Errors, then a success, returned after
\* exactly three dispatches.
C1_Witness ==
    /\ NonPagedGet
    /\ call.retry = 3
    /\ pc = "done"
    /\ Len(sent) = 3
    /\ ParsesToError(recv[1]) /\ Parsed(recv[1]).cls = "FacebookError"
    /\ ParsesToError(recv[2]) /\ Parsed(recv[2]).cls = "FacebookError"
    /\ recv[3] = JsonText(OkValue)
    /\ outcome = Ret(OkValue)

Paged == call.op \in {"get", "search"} /\ call.page /\ gen.kind = "paginate"

\* The cursor a decoded page carries at paging.next, read off the body.
HasCursor(resp) ==
    /\ resp # TransportFailure
    /\ "json" \in DOMAIN resp
    /\ resp.json.t = "dict"
    /\ "paging" \in DOMAIN resp.json.d
    /\ resp.json.d["paging"].t = "dict"
    /\ "next" \in DOMAIN resp.json.d["paging"].d

Cursor(resp) == resp.json.d["paging"].d["next"]

\* A page that ends a chain: a structured, non-error result without paging.next.
IsLastPage(resp) == resp \in {JsonText(OkValue), JsonText(PyBool(TRUE))}

\* recv[1..n] is a chain of n pages.
IsChain(n) ==
    /\ n >= 1
    /\ n <= Len(recv)
    /\ \A i \in 1..(n - 1) : HasCursor(recv[i])
    /\ IsLastPage(recv[n])

\* C2: paged access dispatches nothing before the first pull, dispatches once
\* per pull, yields the pages in order, sends the k-th dispatch (k > 1) to the
\* cursor of page k-1, and over a chain of n pages yields exactly n results
\* and then ends.
C2_PagedChain ==
    Paged =>
        /\ (yielded = <<>> /\ pc = "paging") => sent = <<>>
        /\ \A k \in 2..Len(sent) : HasCursor(recv[k - 1]) /\ sent[k].url = Cursor(recv[k - 1])
        /\ (\A i \in 1..Len(recv) : HasCursor(recv[i]) \/ IsLastPage(recv[i]))
           => (/\ Len(sent) = Len(yielded)
               /\ \A i \in 1..Len(yielded) : yielded[i] = recv[i].json
               /\ (recv # <<>> /\ HasCursor(recv[Len(recv)]))
                  => (pc = "paging" /\ gen.url = Cursor(recv[Len(recv)])))
        /\ \A n \in 1..Len(recv) :
             IsChain(n) => (/\ Len(recv) = n
                            /\ Len(sent) = n
                            /\ Len(yielded) = n
                            /\ pc = "paging" => ~Truthy(gen.url)
                            /\ pc = "done" => gen.state = "exhausted")

\* C2's case: two pages, the second dispatched to the first's cursor, two
\* results, and the sequence has ended.
C2_Witness ==
    /\ Paged
    /\ IsChain(2)
    /\ pc = "done"
    /\ gen.state = "exhausted"
    /\ Len(yielded) = 2
    /\ sent[2].url = Cursor(recv[1])

\* C3: in a paged fetch every dispatch after the first carries none of
\* offset, until, since, and carries every other key of the first dispatch's
\* mapping, and no further key, with the same value.
C3_PaginationKeysReset ==
    Paged =>
        \A k \in 2..Len(sent) :
            /\ DOMAIN sent[k].params \cap {"offset", "until", "since"} = {}
            /\ DOMAIN sent[k].params = DOMAIN sent[1].params \ {"offset", "until", "since"}
            /\ \A key \in DOMAIN sent[k].params : sent[k].params[key] = sent[1].params[key]

\* C3's case: the caller gave since and until, the credential was injected,
\* and a second page was dispatched.
C3_Witness ==
    /\ Paged
    /\ Len(sent) >= 2
    /\ {"since", "until"} \subseteq DOMAIN call.options
    /\ {"since", "until", "access_token", "fields"} \subseteq DOMAIN sent[1].params
    /\ DOMAIN sent[2].params = {"access_token", "fields"}

\* The inbound entries of a batch whose POST was answered with a list.
AnsweredWithList ==
    /\ call.op = "batch"
    /\ recv # <<>>
    /\ recv[1] # TransportFailure
    /\ "json" \in DOMAIN recv[1]
    /\ recv[1].json.t = "list"

Inbound == recv[1].json.items

\* The item the claim gives for an inbound entry and its request.
CorrelatedItem(entry, request) ==
    IF entry = PyNone \/ entry = EmptyDictValue THEN PyNone
    ELSE IF IsException(Parsed(entry.d["body"]))
    THEN [Parsed(entry.d["body"]) EXCEPT !.request = request]
    ELSE Parsed(entry.d["body"])

\* C4: when the batch POST is answered with as many inbound entries as there
\* are requests, the i-th item yielded is None for an empty i-th entry and
\* otherwise the parser's result for the i-th entry's body, a typed error
\* carrying the i-th request; a consumed sequence has one item per request.
C4_BatchCorrelation ==
    (AnsweredWithList /\ Len(Inbound) = Len(call.requests)) =>
        /\ \A i \in 1..Len(yielded) : yielded[i] = CorrelatedItem(Inbound[i], call.requests[i])
        /\ Len(yielded) <= Len(call.requests)
        /\ pc = "done" => (Len(yielded) = Len(call.requests) /\ gen.state = "exhausted")

\* C4's case: three requests, the second inbound entry empty, the third a
\* typed error that names the third request.
C4_Witness ==
    /\ AnsweredWithList
    /\ Len(call.requests) = 3
    /\ Len(Inbound) = 3
    /\ Inbound[2] = PyNone
    /\ pc = "done"
    /\ Len(yielded) = 3
    /\ yielded[1] = OkValue
    /\ yielded[2] = PyNone
    /\ IsException(yielded[3])
    /\ yielded[3].request = BatchRequest(3)

\* C5: a batch sends exactly one POST and, whatever the service answers it
\* with, its consumed sequence has exactly one item per request.  Stated for
\* the answers that are lists of entries, of any length, where the sequence
\* is consumed to its end.
C5_BatchLength ==
    (AnsweredWithList /\ pc = "done" /\ gen.state = "exhausted") =>
        (Len(sent) = 1 /\ Len(yielded) = Len(call.requests))

\* C6: a transport failure of a dispatch reaches the caller as HTTPError.
C6_TransportError ==
    (recv # <<>> /\ recv[Len(recv)] = TransportFailure) =>
        (outcome.raised /\ outcome.v.cls = "HTTPError")

\* C7: when the response of a non-paged get, a post or a delete parses to the
\* boolean false, the caller observes a FacebookError with the generic
\* "Could not ..." message; every other non-error result is returned as is.
C7_BareFalse ==
    (/\ NonPagedGet \/ call.op \in {"post", "delete"}
     /\ pc = "done"
     /\ recv[Len(recv)] # TransportFailure
     /\ ~parse(recv[Len(recv)]).raised
     /\ ~IsException(Parsed(recv[Len(recv)]))) =>
        IF Parsed(recv[Len(recv)]) = PyBool(FALSE)
        THEN /\ outcome.raised
             /\ outcome.v.cls = "FacebookError"
             /\ outcome.v.message \in
                  {CouldNot("get", call.path, "\"."), CouldNot("post to", call.path, "\""),
                   CouldNot("delete", call.path, "\"")}
        ELSE outcome = Ret(Parsed(recv[Len(recv)]))

\* C8: a search with a type outside {post, user, page, event, group, place,
\* checkin} raises ValueError at once with no dispatch; a search with a type
\* of the set raises no ValueError.
C8_SearchType ==
    (call.op = "search" /\ pc # "search") =>
        IF call.type \in {"post", "user", "page", "event", "group", "place", "checkin"}
        THEN ~(outcome.raised /\ outcome.v.cls = "ValueError")
        ELSE /\ pc = "done"
             /\ outcome.raised
             /\ outcome.v.cls = "ValueError"
             /\ sent = <<>>
             /\ gen = NoGen

\* C8's case: type "foo" has failed with ValueError and nothing was sent.
C8_Witness ==
    /\ call.op = "search"
    /\ call.type = "foo"
    /\ pc = "done"
    /\ outcome.raised
    /\ outcome.v.cls = "ValueError"
    /\ sent = <<>>

\* The keys of a search's options that the facade leaves to the caller.
CallerKeys == DOMAIN call.options \ {"q", "type", "access_token"}

\* C9 as stated: the mapping a valid-type search dispatches has q equal to
\* the term argument and type equal to the type argument, whatever options
\* holds, and keeps the caller's other options.
C9_TermOverridesOptions ==
    (call.op = "search" /\ sent # <<>>) =>
        /\ sent[1].params["q"] = PyStr(call.term)
        /\ sent[1].params["type"] = PyStr(call.type)
        /\ \A k \in CallerKeys : sent[1].params[k] = call.options[k]

\* C9 amended: the mapping a valid-type search dispatches has type equal to
\* the type argument, and q equal to the caller's options q when options has
\* one and to the term argument otherwise; the caller's other options are kept.
C9_OptionsOverrideTerm ==
    (call.op = "search" /\ sent # <<>>) =>
        /\ sent[1].params["q"] =
             (IF "q" \in DOMAIN call.options THEN call.options["q"] ELSE PyStr(call.term))
        /\ sent[1].params["type"] = PyStr(call.type)
        /\ \A k \in CallerKeys : sent[1].params[k] = call.options[k]

\* C9's case: the caller gave q in options and the search was dispatched
\* with the caller's q.
C9_Witness ==
    /\ call.op = "search"
    /\ sent # <<>>
    /\ "q" \in DOMAIN call.options
    /\ call.options["q"] # PyStr(call.term)
    /\ sent[1].params["q"] = call.options["q"]
    /\ "limit" \in CallerKeys

\* A body that decodes to a mapping whose error field is a mapping.
HasErrorMapping(resp) ==
    /\ resp # TransportFailure
    /\ "json" \in DOMAIN resp
    /\ resp.json.t = "dict"
    /\ "error" \in DOMAIN resp.json.d
    /\ resp.json.d["error"].t = "dict"

ErrorField(resp, name) ==
    IF name \in DOMAIN resp.json.d["error"].d THEN resp.json.d["error"].d[name] ELSE PyNone

\* The typed error the claim gives for such a body.
ExpectedError(resp) ==
    PyExc(IF ErrorField(resp, "type") = PyStr("OAuthException")
          THEN "OAuthError" ELSE "FacebookError",
          ErrorField(resp, "message"), ErrorField(resp, "code"), Unset)

IsMapping(resp) ==
    resp # TransportFailure /\ "json" \in DOMAIN resp /\ resp.json.t = "dict"

\* A decoded mapping with the legacy error_msg field and no error field.
HasLegacyError(resp) ==
    IsMapping(resp) /\ "error_msg" \in DOMAIN resp.json.d /\ "error" \notin DOMAIN resp.json.d

\* The plain Service Error the claim gives for a legacy body.
ExpectedLegacyError(resp) ==
    PyExc("FacebookError", resp.json.d["error_msg"],
          IF "error_code" \in DOMAIN resp.json.d THEN resp.json.d["error_code"] ELSE PyNone,
          Unset)

\* What the claim gives for a decoded mapping (an error field being a
\* mapping): the structured error when there is an error field, the legacy
\* error when there is only error_msg, the mapping itself otherwise.
ExpectedForMapping(resp) ==
    IF HasErrorMapping(resp) THEN ExpectedError(resp)
    ELSE IF HasLegacyError(resp) THEN ExpectedLegacyError(resp)
    ELSE resp.json

\* The decoded mappings C11 speaks of.
LegacyClaimCase(resp) ==
    IsMapping(resp) /\ ("error" \in DOMAIN resp.json.d => HasErrorMapping(resp))

\* C11: a decoded mapping with error_msg and no error field parses to a plain
\* FacebookError with message error_msg and code error_code (None when
\* missing); with both fields present the error field alone decides the
\* result; a mapping with neither field is returned as it is.  (A non-paged
\* search returns the parser's result to the caller, a paged sequence yields
\* it.)
C11_LegacyError ==
    /\ (/\ call.op = "search"
        /\ ~call.page
        /\ pc = "done"
        /\ recv # <<>>
        /\ LegacyClaimCase(recv[1])) => outcome = Ret(ExpectedForMapping(recv[1]))
    /\ Paged =>
         \A i \in 1..Len(recv) :
             LegacyClaimCase(recv[i])
             => (Len(yielded) >= i /\ yielded[i] = ExpectedForMapping(recv[i]))

\* C11's case: a mapping with both fields was parsed by its error field alone.
C11_Witness ==
    /\ call.op = "search"
    /\ ~call.page
    /\ pc = "done"
    /\ recv = <<JsonText(BothErrorsValue)>>
    /\ outcome = Ret(PyExc("FacebookError", PyStr("structured"), PyNum(2), Unset))

\* The outcome class of a body: raw text when it is no JSON, typed error when
\* it decodes to a mapping with an error or error_msg field, structured
\* success otherwise.
OutcomeClass(resp) ==
    IF "json" \notin DOMAIN resp THEN "raw-text"
    ELSE IF resp.json.t = "dict" /\ DOMAIN resp.json.d \cap {"error", "error_msg"} # {}
    THEN "typed-error"
    ELSE "structured"

\* The Python types a result of each class may have if the type alone is to
\* name the class: raw text is a str (it is the body itself), a typed error an
\* exception, and a structured value neither.
TypesOfClass(c) ==
    CASE c = "raw-text" -> {"str"}
      [] c = "typed-error" -> {"exc"}
      [] c = "structured" -> {"dict", "list", "bool", "num", "none"}

\* C12: every non-JSON body parses to the raw text unchanged, every JSON body
\* to a structured value or a typed error, and the type of the result alone
\* tells the three classes apart.  (A non-paged search returns the parser's
\* result to the caller.)
C12_OutcomesByType ==
    (/\ call.op = "search"
     /\ ~call.page
     /\ pc = "done"
     /\ recv # <<>>
     /\ recv[1] # TransportFailure) =>
        /\ ~outcome.raised
        /\ OutcomeClass(recv[1]) = "raw-text" => outcome.v = recv[1]
        /\ outcome.v.t \in TypesOfClass(OutcomeClass(recv[1]))

\* The comma join of up to three strings, written out.
CommaJoin(items) ==
    CASE Len(items) = 0 -> ""
      [] Len(items) = 1 -> items[1].s
      [] Len(items) = 2 -> items[1].s \o "," \o items[2].s
      [] Len(items) = 3 -> items[1].s \o "," \o items[2].s \o "," \o items[3].s

\* The value the claim gives for an option value: the comma join for a list,
\* tuple or set of strings only, the value itself otherwise.
NormalValue(v) ==
    IF v.t \in {"list", "tuple", "set"} /\ \A i \in 1..Len(v.items) : v.items[i].t = "str"
    THEN PyStr(CommaJoin(v.items))
    ELSE v

\* Everything one dispatch carries: the query parameters of a GET or DELETE,
\* the body and the file section of a POST.
Wire(req) ==
    IF req.method \in {"GET", "DELETE"} THEN req.params
    ELSE [k \in DOMAIN req.data \cup DOMAIN req.files |->
            IF k \in DOMAIN req.files THEN req.files[k] ELSE req.data[k]]

HoldsCredential == oauth_token # PyBool(FALSE)

\* C13: in what get and post dispatch, every option that is a list, tuple or
\* set of strings is the comma join of its elements, every other option is
\* the caller's value unchanged, and the keys are the caller's keys plus the
\* injected access_token (whose value is the credential's).
C13_OptionNormalization ==
    (call.op \in {"get", "post"} /\ sent # <<>>) =>
        /\ DOMAIN Wire(sent[1]) =
             DOMAIN call.options \cup (IF HoldsCredential THEN {"access_token"} ELSE {})
        /\ \A k \in DOMAIN call.options :
             (k # "access_token" \/ ~HoldsCredential)
             => Wire(sent[1])[k] = NormalValue(call.options[k])

\* C13's case: a tuple and a set of strings were joined, a list with a number
\* in it and a number were passed through.
C13_Witness ==
    /\ call.op = "get"
    /\ sent # <<>>
    /\ "ids" \in DOMAIN call.options
    /\ call.options["ids"] = PyTuple(<<PyStr("1"), PyStr("2"), PyStr("3")>>)
    /\ sent[1].params["ids"] = PyStr("1,2,3")
    /\ sent[1].params["tags"] = PyStr("b,a")
    /\ sent[1].params["none"] = PyStr("")
    /\ sent[1].params["mixed"] = PyList(<<PyStr("a"), PyNum(1)>>)
    /\ sent[1].params["limit"] = PyNum(10)

\* C14: every dispatch of a client that holds a credential carries
\* access_token equal to the credential, whatever the caller supplied; a
\* client without a credential adds no access_token: a dispatch carries one
\* only as the caller's own option.
C14_Credential ==
    \A k \in 1..Len(sent) :
        IF HoldsCredential
        THEN /\ "access_token" \in DOMAIN Wire(sent[k])
             /\ Wire(sent[k])["access_token"] = oauth_token
        ELSE /\ "access_token" \in DOMAIN Wire(sent[k])
                  <=> "access_token" \in DOMAIN call.options
             /\ "access_token" \in DOMAIN Wire(sent[k])
                  => Wire(sent[k])["access_token"] = call.options["access_token"]

\* C14's case: the caller supplied an access_token of its own, and the first
\* page and the page after it both went out with the client's credential.
C14_Witness ==
    /\ Paged
    /\ HoldsCredential
    /\ Len(sent) >= 2
    /\ "access_token" \in DOMAIN call.options
    /\ call.options["access_token"] # oauth_token
    /\ sent[1].params["access_token"] = oauth_token
    /\ sent[2].params["access_token"] = oauth_token

\* The normalized data of a call whose caller gave the mapping o: every value
\* normalized, and the credential under access_token.
NormalData(o) ==
    [k \in DOMAIN o \cup (IF HoldsCredential THEN {"access_token"} ELSE {}) |->
        IF k = "access_token" /\ HoldsCredential THEN oauth_token ELSE NormalValue(o[k])]

\* The mapping the caller of the current call gave for its first dispatch.
CallerData ==
    CASE call.op = "batch" -> [batch |-> [t |-> "str", json |-> PyList(call.requests)]]
      [] call.op = "delete" -> EmptyMap
      [] call.op = "search" ->
           [k \in {"q", "type"} \cup DOMAIN call.options |->
               IF k \in DOMAIN call.options THEN call.options[k]
               ELSE IF k = "q" THEN PyStr(call.term) ELSE PyStr(call.type)]
      [] OTHER -> call.options

HasReadCapability(v) == v.t = "file"

\* C15: a POST goes out with a file section holding exactly the entries of
\* the normalized data whose value can be read, and a body holding exactly
\* the others: disjoint keys whose union is the keys of the normalized data.
\* A GET or DELETE goes out with all its data as query parameters, no body
\* and no file section.
C15_FilePartition ==
    \A k \in 1..Len(sent) :
        IF sent[k].method \in {"POST", "PUT"}
        THEN LET N == NormalData(CallerData) IN
             /\ DOMAIN sent[k].files = {x \in DOMAIN N : HasReadCapability(N[x])}
             /\ DOMAIN sent[k].data = {x \in DOMAIN N : ~HasReadCapability(N[x])}
             /\ DOMAIN sent[k].files \cap DOMAIN sent[k].data = {}
             /\ DOMAIN sent[k].files \cup DOMAIN sent[k].data = DOMAIN N
             /\ \A x \in DOMAIN sent[k].files : sent[k].files[x] = N[x]
             /\ \A x \in DOMAIN sent[k].data : sent[k].data[x] = N[x]
             /\ sent[k].params = EmptyMap
        ELSE /\ sent[k].files = EmptyMap
             /\ sent[k].data = EmptyMap
             /\ k = 1 => sent[k].params = NormalData(CallerData)

\* C15's case: a POST with two file-like values, a list option and the
\* credential: two file parts, two body entries.
C15_Witness ==
    /\ call.op = "post"
    /\ HoldsCredential
    /\ sent # <<>>
    /\ DOMAIN sent[1].files = {"source", "thumb"}
    /\ DOMAIN sent[1].data = {"tags", "access_token"}
    /\ sent[1].files["source"] = PyFile("photo.jpg")

\* The caller of the finished call has the typed error e before it: raised, or
\* returned, or yielded, with its message and code.
Surfaced(e) ==
    \/ outcome.v = e
    \/ \E j \in 1..Len(yielded) : yielded[j] = e

\* C16: no typed error is swallowed.  When a facade call is over, every
\* response that parsed to a typed error was either followed by a retry of
\* get or has surfaced to the caller with its message and code; so for a batch
\* whose POST parsed to a typed error.
C16_NothingSwallowed ==
    pc = "done" =>
        \A i \in 1..Len(recv) :
            ParsesToError(recv[i])
            => \/ NonPagedGet /\ i < Len(recv)
               \/ Surfaced(Parsed(recv[i]))

ValidSearch ==
    call.op = "search"
    /\ call.type \in {"post", "user", "page", "event", "group", "place", "checkin"}

\* C17: a valid-type search ends as get('search', ...) with its
\* default retry budget ends on the same responses: same outcome, same number
\* of dispatches, with get's retry of typed errors, its raising of the last
\* error and its conversion of a bare false.
C17_SearchAsGet ==
    (ValidSearch /\ ~call.page /\ pc = "done") =>
        IF recv[Len(recv)] = TransportFailure \/ parse(recv[Len(recv)]).raised
        THEN outcome.raised
        ELSE LET D == GetDecide(Parsed(recv[Len(recv)]), DefaultRetry - (Len(recv) - 1), "search")
             IN  ~D.again /\ outcome = D.out

\* What search does (C17): a valid-type search makes the dispatch get('search', ...)
\* makes first (GET, the search URL, the same normalized options) and, paged,
\* returns the same page sequence; non-paged it makes exactly that one
\* dispatch and returns what the response parsed to as it is: the same
\* outcome as get for a non-error, non-false result, while a typed error is
\* returned as a value, not retried and not raised, and a bare false is
\* returned as false.
C17_SearchSingleDispatch ==
    /\ (ValidSearch /\ ~call.page /\ pc = "done") =>
         /\ Len(sent) = 1
         /\ sent[1].method = "GET"
         /\ sent[1].url = PyStr(Url("search"))
         /\ sent[1].params = NormalData(CallerData)
         /\ IF recv[1] = TransportFailure \/ parse(recv[1]).raised
            THEN outcome.raised
            ELSE outcome = Ret(Parsed(recv[1]))
         /\ ParsesToSuccess(recv[1])
              => outcome = GetDecide(Parsed(recv[1]), DefaultRetry, "search").out
    /\ (ValidSearch /\ call.page /\ pc = "paging" /\ sent = <<>>) =>
         /\ outcome = Ret(PyGenerator)
         /\ gen.method = "GET"
         /\ gen.url = PyStr(Url("search"))
         /\ gen.data = NormalData(CallerData)

\* C17's case: the search got a typed error and returned it as a value after
\* one dispatch.
C17_Witness ==
    /\ ValidSearch
    /\ ~call.page
    /\ pc = "done"
    /\ Len(sent) = 1
    /\ recv = <<JsonText(OAuthValue)>>
    /\ outcome = Ret(PyExc("OAuthError", PyStr("bad token"), PyNum(190), Unset))

Max(a, b) == IF a > b THEN a ELSE b

\* C18: a non-paged get with retry budget r (zero and negative included)
\* makes at least 1 and at most max(1, r) dispatches and terminates: it is
\* still running only while it has made fewer than max(1, r) dispatches, and
\* each of its steps is a dispatch.  A further dispatch follows only a
\* dispatch that parsed to a typed error: a transport failure, a bare false
\* or a success ends the call at once.
C18_RetryBound ==
    NonPagedGet =>
        /\ Len(recv) = Len(sent)
        /\ Len(sent) <= Max(1, call.retry)
        /\ retry = call.retry - Len(sent) \/ pc = "done"
        /\ pc = "get" => Len(sent) < Max(1, call.retry)
        /\ pc = "done" => Len(sent) >= 1
        /\ \A i \in 1..(Len(recv) - 1) : ParsesToError(recv[i])
        /\ (recv # <<>> /\ ~ParsesToError(recv[Len(recv)])) => pc = "done"

\* C18's case: a negative budget, one dispatch, its typed error raised.
C18_Witness ==
    /\ NonPagedGet
    /\ call.retry < 0
    /\ pc = "done"
    /\ Len(sent) = 1
    /\ ParsesToError(recv[1])
    /\ outcome = Raise(Parsed(recv[1]))

\* A transport failure on a get with budget left ended the call at once.
C18_TransportEndsCall ==
    /\ NonPagedGet
    /\ call.retry = MaxRetry
    /\ pc = "done"
    /\ recv = <<TransportFailure>>
    /\ outcome.raised

\* A page that parsed (the parser returned) to a value without paging.next.
ParsesWithoutCursor(resp) ==
    /\ resp # TransportFailure
    /\ ~parse(resp).raised
    /\ ~HasCursor(resp)

\* C19: in a paged sequence a page that parses to a typed error, to raw text,
\* to a bare boolean or to any other value without a nested paging.next is
\* yielded as it parsed, nothing is raised, retried or converted, and it is
\* the last item: no dispatch follows it and the sequence ends.
C19_LastPageYielded ==
    Paged =>
        \A i \in 1..Len(recv) :
            ParsesWithoutCursor(recv[i])
            => /\ Len(yielded) >= i
               /\ yielded[i] = Parsed(recv[i])
               /\ Len(yielded) = i
               /\ Len(recv) = i
               /\ Len(sent) = i
               /\ outcome = Ret(PyGenerator)
               /\ pc = "paging" => ~Truthy(gen.url)
               /\ pc = "done" => gen.state = "exhausted"

\* C19's case: the second page parsed to a typed error, was yielded as the
\* second and last item, and the sequence ended without a further dispatch.
C19_Witness ==
    /\ Paged
    /\ pc = "done"
    /\ gen.state = "exhausted"
    /\ Len(recv) = 2
    /\ Len(sent) = 2
    /\ Len(yielded) = 2
    /\ HasCursor(recv[1])
    /\ ParsesToError(recv[2])
    /\ IsException(yielded[2])
    /\ outcome = Ret(PyGenerator)

\* A page that was a bare false went to the consumer as false.
C19_FalsePageYielded ==
    /\ Paged
    /\ pc = "done"
    /\ gen.state = "exhausted"
    /\ recv = <<JsonText(PyBool(FALSE))>>
    /\ yielded = <<PyBool(FALSE)>>

\* A page of raw text went to the consumer as text.
C19_TextPageYielded ==
    /\ Paged
    /\ pc = "done"
    /\ Len(recv) = 1
    /\ "json" \notin DOMAIN recv[1]
    /\ yielded = <<recv[1]>>

\* The three Parsed Result outcomes as values: a typed error, raw text (the
\* body itself), a structured value.
IsParsedResult(resp, v) ==
    \/ IsException(v) /\ v.cls \in {"FacebookError", "OAuthError"}
    \/ v = resp
    \/ "json" \in DOMAIN resp /\ v = resp.json

\* C20: the parser is total: for every body the service answered with,
\* non-JSON text and every JSON value, mappings whose error field is not a
\* mapping included, parsing returned one of the three Parsed Result outcomes
\* and raised no exception of its own.
C20_ParserTotal ==
    \A i \in 1..Len(recv) :
        recv[i] # TransportFailure
        => /\ ~parse(recv[i]).raised
           /\ IsParsedResult(recv[i], parse(recv[i]).v)

====
